---- MODULE Spec2Model ----
(***************************************************************************)
(* Model of src/app.py: the /generate request handler, the template        *)
(* processing routine process_pptx_template and the slide cloning routine  *)
(* duplicate_slide.                                                        *)
(*                                                                         *)
(* Strings are sequences of one-character strings, so that strip,          *)
(* splitlines, the "in" test and str.replace are computed, not assumed.    *)
(* A presentation is a sequence of slides, a slide a record with a         *)
(* background and a sequence of shapes, a text shape a sequence of         *)
(* paragraphs, a paragraph a sequence of runs, a run a string.             *)
(***************************************************************************)
EXTENDS Integers, Sequences, FiniteSets, TLC

VARIABLES
    request,           \* the multipart form of the POST
    pc,                \* position of the handler
    running_numbers,   \* local of generate (line 123)
    placeholder_text,  \* local of generate (line 124)
    items_per_slide,   \* local of generate (line 125)
    called,            \* process_pptx_template has been entered
    prs,               \* the Presentation object: its slides
    codes,             \* line 73
    chunks,            \* line 78
    dups,              \* completed calls of duplicate_slide (loop of line 84)
    sub_i,             \* slides already visited by the loop of line 88
    pre,               \* the slides as they were when phase 2 started
    output_pptx,       \* local of generate (line 130): "unset", "None" or "BytesIO"
    exc,               \* message of the exception in flight, "" if none
    response           \* what the handler returned

vars == <<request, pc, running_numbers, placeholder_text, items_per_slide,
          called, prs, codes, chunks, dups, sub_i, pre, output_pptx, exc, response>>

(***************************************************************************)
(* Bounds of the model.                                                    *)
(***************************************************************************)
MaxLines == 3        \* lines of the running_numbers text block
MaxItems == 2        \* largest items_per_slide submitted
MaxShapes == 2       \* shapes on the first slide of an uploaded template
MaxExtraSlides == 1  \* slides of an uploaded template after the first

(***************************************************************************)
(* Strings.                                                                *)
(***************************************************************************)
Whitespace == {" ", "\n"}

Min(a, b) == IF a < b THEN a ELSE b

Max(a, b) == IF a > b THEN a ELSE b

RECURSIVE LStrip(_)
LStrip(s) ==
    IF s # <<>> /\ Head(s) \in Whitespace THEN LStrip(Tail(s)) ELSE s

RECURSIVE RStrip(_)
RStrip(s) ==
    IF s # <<>> /\ s[Len(s)] \in Whitespace
    THEN RStrip(SubSeq(s, 1, Len(s) - 1))
    ELSE s

\* str.strip()
Strip(s) == RStrip(LStrip(s))

\* str.splitlines(): no entry for the text after a final line break
RECURSIVE SplitLines(_)
SplitLines(s) ==
    IF s = <<>> THEN <<>>
    ELSE LET brk == {i \in 1..Len(s) : s[i] = "\n"}
         IN  IF brk = {} THEN <<s>>
             ELSE LET i == CHOOSE j \in brk : \A k \in brk : j <= k
                  IN  <<SubSeq(s, 1, i - 1)>> \o SplitLines(SubSeq(s, i + 1, Len(s)))

\* positions at which old occurs in text
Occurrences(text, old) ==
    {i \in 1..(Len(text) - Len(old) + 1) : SubSeq(text, i, i + Len(old) - 1) = old}

\* old in text
Contains(text, old) == Occurrences(text, old) # {}

\* str.find, 1-based
Find(text, old) ==
    CHOOSE i \in Occurrences(text, old) : \A j \in Occurrences(text, old) : i <= j

\* str.replace(old, new, count); count < 0 replaces every occurrence
RECURSIVE Replace(_, _, _, _)
Replace(text, old, new, count) ==
    IF count = 0 THEN text
    ELSE IF old = <<>>
    THEN IF text = <<>> THEN new
         ELSE new \o <<Head(text)>> \o Replace(Tail(text), old, new, count - 1)
    ELSE IF ~Contains(text, old) THEN text
    ELSE LET i == Find(text, old)
         IN  SubSeq(text, 1, i - 1) \o new
               \o Replace(SubSeq(text, i + Len(old), Len(text)), old, new, count - 1)

(***************************************************************************)
(* Cleaning and chunking the code list (lines 73 and 78).                  *)
(***************************************************************************)
NonBlank(line) == Strip(line) # <<>>

\* [line.strip() for line in running_numbers.strip().splitlines() if line.strip()]
CleanCodes(rn) ==
    LET kept == SelectSeq(SplitLines(Strip(rn)), NonBlank)
    IN  [k \in 1..Len(kept) |-> Strip(kept[k])]

\* range(start, stop, step) for step # 0, as the sequence of its values
RECURSIVE Range(_, _, _)
Range(start, stop, step) ==
    IF step > 0
    THEN IF start >= stop THEN <<>> ELSE <<start>> \o Range(start + step, stop, step)
    ELSE IF start <= stop THEN <<>> ELSE <<start>> \o Range(start + step, stop, step)

\* seq[lo:hi] for 0 <= lo <= hi
Slice(seq, lo, hi) == SubSeq(seq, lo + 1, Min(hi, Len(seq)))

\* line 78 with the slice one element too long
MakeChunks_Overlap(cs, n) ==
    LET starts == Range(0, Len(cs), n)
    IN  [k \in 1..Len(starts) |-> Slice(cs, starts[k], starts[k] + n + 1)]

\* [codes[i:i + n] for i in range(0, len(codes), n)], n # 0
MakeChunks(cs, n) ==
    LET starts == Range(0, Len(cs), n)
    IN  [k \in 1..Len(starts) |-> Slice(cs, starts[k], starts[k] + n)]

(***************************************************************************)
(* The document.  A shape records how it came to be on its slide:          *)
(* "orig" (parsed from the upload), "layout" (a placeholder add_slide      *)
(* made from the layout), "xml" (deep copy of a source element) or         *)
(* "image" (add_picture from the source's image bytes).  A picture         *)
(* records which step of its re-insertion raises, if any: reading          *)
(* shape.image.blob ("blob"), add_picture ("add"), or reading or           *)
(* assigning the rotation ("rot").                                         *)
(***************************************************************************)
TextShape(paras) == [kind |-> "text", how |-> "orig", fail |-> "none", paras |-> paras]

Picture(fail) == [kind |-> "pic", how |-> "orig", fail |-> fail, paras |-> <<>>]

Connector == [kind |-> "other", how |-> "orig", fail |-> "none", paras |-> <<>>]

LayoutPlaceholder ==
    [kind |-> "text", how |-> "layout", fail |-> "none", paras |-> << <<>> >>]

\* shape.has_text_frame
HasTextFrame(shape) == shape.kind = "text"

\* shape.shape_type == MSO_SHAPE_TYPE.PICTURE
IsPicture(shape) == shape.kind = "pic"

\* copy.deepcopy(shape.element) inserted into the destination tree
XmlCopy(shape) == [shape EXCEPT !.how = "xml"]

\* dest.shapes.add_picture(image_stream, left, top, width, height)
Reinserted(shape) == [shape EXCEPT !.how = "image", !.fail = "none"]

\* prs.slides.add_slide(layout): the new slide carries the layout's placeholders
AddSlide(source) == [bg |-> "none", shapes |-> <<LayoutPlaceholder>>]

\* step 2 (lines 22-24): every shape of the new slide is removed
ClearShapes(slide) == [slide EXCEPT !.shapes = <<>>]

\* step 4, one source shape (lines 37-64): the shapes of dest afterwards
CopyShape(shape, shapes) ==
    IF IsPicture(shape)
    THEN CASE shape.fail = "blob" -> shapes \o <<XmlCopy(shape)>>
           [] shape.fail = "add"  -> shapes \o <<XmlCopy(shape)>>
           [] shape.fail = "rot"  -> shapes \o <<Reinserted(shape), XmlCopy(shape)>>
           [] OTHER               -> shapes \o <<Reinserted(shape)>>
    ELSE shapes \o <<XmlCopy(shape)>>

\* step 4, the loop of line 34 over the source shapes from index k on
RECURSIVE CopyShapes(_, _, _)
CopyShapes(src, k, shapes) ==
    IF k > Len(src) THEN shapes
    ELSE CopyShapes(src, k + 1, CopyShape(src[k], shapes))

\* duplicate_slide(prs, source_slide): the new slide; bgCopied says whether
\* step 3 assigned the background or its exception was swallowed
DuplicateOf(source, bgCopied) ==
    LET dest == ClearShapes(AddSlide(source))
        bgd  == IF bgCopied /\ source.bg # "none"
                THEN [dest EXCEPT !.bg = source.bg] ELSE dest
    IN  [bgd EXCEPT !.shapes = CopyShapes(source.shapes, 1, <<>>)]

(***************************************************************************)
(* Phase 2 on one slide (lines 90-103).  Each operator returns the         *)
(* rewritten part and the value of chunk_index afterwards.                 *)
(***************************************************************************)
\* lines 98-103 with line 100 missing its count argument
SubstRun_NoCount(text, ph, chunk, idx) ==
    IF Contains(text, ph)
    THEN IF idx < Len(chunk)
         THEN [out |-> Replace(text, ph, chunk[idx + 1], -1), idx |-> idx + 1]
         ELSE [out |-> Replace(text, ph, <<>>, -1), idx |-> idx]
    ELSE [out |-> text, idx |-> idx]

\* lines 98-103 on one run
SubstRun(text, ph, chunk, idx) ==
    IF Contains(text, ph)
    THEN IF idx < Len(chunk)
         THEN [out |-> Replace(text, ph, chunk[idx + 1], 1), idx |-> idx + 1]
         ELSE [out |-> Replace(text, ph, <<>>, -1), idx |-> idx]
    ELSE [out |-> text, idx |-> idx]

\* line 97: the runs of one paragraph from index k on
RECURSIVE SubstRuns(_, _, _, _, _)
SubstRuns(runs, k, ph, chunk, idx) ==
    IF k > Len(runs) THEN [out |-> runs, idx |-> idx]
    ELSE LET r == SubstRun(runs[k], ph, chunk, idx)
         IN  SubstRuns([runs EXCEPT ![k] = r.out], k + 1, ph, chunk, r.idx)

\* line 96: the paragraphs of one text frame from index k on
RECURSIVE SubstParas(_, _, _, _, _)
SubstParas(paras, k, ph, chunk, idx) ==
    IF k > Len(paras) THEN [out |-> paras, idx |-> idx]
    ELSE LET r == SubstRuns(paras[k], 1, ph, chunk, idx)
         IN  SubstParas([paras EXCEPT ![k] = r.out], k + 1, ph, chunk, r.idx)

\* line 92: the shapes of one slide from index k on
RECURSIVE SubstShapes(_, _, _, _, _)
SubstShapes(shapes, k, ph, chunk, idx) ==
    IF k > Len(shapes) THEN [out |-> shapes, idx |-> idx]
    ELSE IF ~HasTextFrame(shapes[k]) THEN SubstShapes(shapes, k + 1, ph, chunk, idx)
    ELSE LET r == SubstParas(shapes[k].paras, 1, ph, chunk, idx)
         IN  SubstShapes([shapes EXCEPT ![k].paras = r.out], k + 1, ph, chunk, r.idx)

\* lines 89-103 for one chunk
SubstSlide(slide, ph, chunk) ==
    [slide EXCEPT !.shapes = SubstShapes(slide.shapes, 1, ph, chunk, 0).out]

(***************************************************************************)
(* int(request.form.get('items_per_slide', 1)) on the text of the field.   *)
(***************************************************************************)
Digits == <<"0", "1", "2", "3", "4", "5", "6", "7", "8", "9">>

IsDigit(c) == \E d \in 1..Len(Digits) : Digits[d] = c

DigitValue(c) == (CHOOSE d \in 1..Len(Digits) : Digits[d] = c) - 1

RECURSIVE DecimalValue(_, _)
DecimalValue(ds, acc) ==
    IF ds = <<>> THEN acc
    ELSE DecimalValue(Tail(ds), acc * Len(Digits) + DigitValue(Head(ds)))

\* the digits of int(text) after the optional sign, <<>> when int() raises
Unsigned(text) ==
    LET t == Strip(text)
    IN  IF t # <<>> /\ Head(t) \in {"-", "+"} THEN Tail(t) ELSE t

IsIntText(text) ==
    /\ Unsigned(text) # <<>>
    /\ \A k \in 1..Len(Unsigned(text)) : IsDigit(Unsigned(text)[k])

ParseInt(text) ==
    LET t == Strip(text)
        v == DecimalValue(Unsigned(text), 0)
    IN  IF Head(t) = "-" THEN 0 - v ELSE v

\* the decimal text of a one-digit integer, as a browser would submit it
IntText(n) == IF n < 0 THEN <<"-", Digits[1 - n]>> ELSE <<Digits[n + 1]>>

(***************************************************************************)
(* Requests.                                                               *)
(***************************************************************************)
Absent == [present |-> FALSE, value |-> <<>>]

Field(v) == [present |-> TRUE, value |-> v]

\* request.form.get(name, default)
FormGet(field, default) == IF field.present THEN field.value ELSE default

\* the default placeholder token '{{NUM}}', one character in this model
DefaultPlaceholder == <<"P">>

RECURSIVE JoinLines(_)
JoinLines(lines) ==
    IF lines = <<>> THEN <<>>
    ELSE IF Len(lines) = 1 THEN lines[1]
    ELSE lines[1] \o <<"\n">> \o JoinLines(Tail(lines))

SeqsUpTo(S, n) == UNION {[1..k -> S] : k \in 0..n}

LinePool == {<<" ">>, <<"a">>, <<" ", "b", " ">>}

RunningNumbersAll == {JoinLines(ls) : ls \in SeqsUpTo(LinePool, MaxLines)}

RunningNumbersFew ==
    {<<>>, <<"a", "\n", "P">>, <<"a", "\n", "b", "\n", "a", "a">>}

ItemsTextsAll ==
    {IntText(n) : n \in -1..MaxItems} \cup {<<>>, <<"x">>, <<" ", "2", "\n">>, <<"1", "0">>}

ItemsTextsFew == {<<"x">>, <<"-", "1">>, <<"2">>}

Placeholders == {<<"P">>, <<>>}

Slide(bg, shapes) == [bg |-> bg, shapes |-> shapes]

Deck(slides) == [parseable |-> TRUE, slides |-> slides]

Corrupt == [parseable |-> FALSE, slides |-> <<>>]

OneRun == TextShape(<< <<<<"P">>>> >>)

ThreeRuns == TextShape(<< <<<<"P", "a", "P">>, <<"a">>>>, <<<<"a", "P">>>> >>)

ShapePool ==
    {OneRun, ThreeRuns, Connector,
     Picture("none"), Picture("blob"), Picture("add"), Picture("rot")}

ExtraSlide == Slide("none", <<TextShape(<< <<<<"a">>, <<"P">>>> >>)>>)

UploadsAll ==
    {Corrupt, Deck(<<>>)} \cup
    {Deck(<<Slide(bg, sh)>> \o [k \in 1..n |-> ExtraSlide]) :
        bg \in {"none", "custom"}, sh \in SeqsUpTo(ShapePool, MaxShapes),
        n \in 0..MaxExtraSlides}

UploadsFew ==
    {Corrupt, Deck(<<>>),
     Deck(<<Slide("none", <<OneRun>>)>>),
     Deck(<<Slide("custom", <<ThreeRuns, Picture("none"), OneRun>>)>>),
     Deck(<<Slide("none", <<Connector>>)>>),
     Deck(<<Slide("none", <<OneRun, OneRun>>), ExtraSlide>>)}

Filenames == {<<>>, <<"t">>}

Fields(values) == {Field(v) : v \in values}

Requests(uploads, rns, phs, items) ==
    [has_file : BOOLEAN, filename : Filenames, upload : uploads,
     running_numbers : rns, placeholder_text : phs, items_per_slide : items]

NoResponse == [status |-> 0, body |-> <<>>, attachment |-> <<>>, download_name |-> <<>>]

InitLocals ==
    /\ pc = "start"
    /\ running_numbers = <<>>
    /\ placeholder_text = <<>>
    /\ items_per_slide = 0
    /\ called = FALSE
    /\ prs = <<>>
    /\ codes = <<>>
    /\ chunks = <<>>
    /\ dups = 0
    /\ sub_i = 0
    /\ pre = <<>>
    /\ output_pptx = "unset"
    /\ exc = ""
    /\ response = NoResponse

\* requests that vary the form fields over a few uploads
Init ==
    /\ request \in Requests(UploadsFew,
                             {Absent} \cup Fields(RunningNumbersAll),
                             {Absent} \cup Fields(Placeholders),
                             {Absent} \cup Fields(ItemsTextsAll))
    /\ InitLocals

\* requests that vary the uploaded template over a few form fields
InitDoc ==
    /\ request \in Requests(UploadsAll,
                             Fields(RunningNumbersFew),
                             {Absent, Field(<<>>)},
                             {Absent} \cup Fields(ItemsTextsFew))
    /\ InitLocals

(***************************************************************************)
(* generate(): lines 117-144, one action per statement that can leave      *)
(* the straight path.                                                      *)
(***************************************************************************)
Reply(status, body) ==
    [status |-> status, body |-> body, attachment |-> <<>>, download_name |-> <<>>]

\* raise inside the try block of generate: control goes to line 142
Raise(message) ==
    /\ exc' = message
    /\ pc' = "except"

\* lines 119-120
CheckUploaded ==
    /\ pc = "start"
    /\ IF ~request.has_file
       THEN /\ response' = Reply(400, <<"No file uploaded">>)
            /\ pc' = "done"
       ELSE /\ pc' = "form"
            /\ UNCHANGED response
    /\ UNCHANGED <<request, running_numbers, placeholder_text, items_per_slide, called,
                   prs, codes, chunks, dups, sub_i, pre, output_pptx, exc>>

\* lines 122-125
ReadForm ==
    /\ pc = "form"
    /\ running_numbers' = FormGet(request.running_numbers, <<>>)
    /\ placeholder_text' = FormGet(request.placeholder_text, DefaultPlaceholder)
    /\ IF ~request.items_per_slide.present
       THEN /\ items_per_slide' = 1
            /\ pc' = "name"
            /\ UNCHANGED exc
       ELSE IF IsIntText(request.items_per_slide.value)
       THEN /\ items_per_slide' = ParseInt(request.items_per_slide.value)
            /\ pc' = "name"
            /\ UNCHANGED exc
       ELSE /\ Raise("invalid literal for int() with base 10")
            /\ UNCHANGED items_per_slide
    /\ UNCHANGED <<request, called, prs, codes, chunks, dups, sub_i, pre, output_pptx,
                   response>>

\* lines 127-130, up to the call
CheckSelected ==
    /\ pc = "name"
    /\ IF request.filename = <<>>
       THEN /\ response' = Reply(400, <<"No selected file">>)
            /\ pc' = "done"
            /\ UNCHANGED called
       ELSE /\ called' = TRUE
            /\ pc' = "open"
            /\ UNCHANGED response
    /\ UNCHANGED <<request, running_numbers, placeholder_text, items_per_slide,
                   prs, codes, chunks, dups, sub_i, pre, output_pptx, exc>>

\* line 70
OpenPresentation ==
    /\ pc = "open"
    /\ IF request.upload.parseable
       THEN /\ prs' = request.upload.slides
            /\ pc' = "clean"
            /\ UNCHANGED exc
       ELSE /\ Raise("Package not found")
            /\ UNCHANGED prs
    /\ UNCHANGED <<request, running_numbers, placeholder_text, items_per_slide, called,
                   codes, chunks, dups, sub_i, pre, output_pptx, response>>

\* lines 73-78
CleanAndChunk ==
    /\ pc = "clean"
    /\ codes' = CleanCodes(running_numbers)
    /\ IF codes' = <<>>
       THEN /\ output_pptx' = "None"
            /\ pc' = "respond"
            /\ UNCHANGED <<chunks, exc>>
       ELSE IF items_per_slide = 0
       THEN /\ Raise("range() arg 3 must not be zero")
            /\ UNCHANGED <<chunks, output_pptx>>
       ELSE /\ chunks' = MakeChunks(codes', items_per_slide)
            /\ pc' = "source"
            /\ UNCHANGED <<output_pptx, exc>>
    /\ UNCHANGED <<request, running_numbers, placeholder_text, items_per_slide, called,
                   prs, dups, sub_i, pre, response>>

\* lines 81-82
TakeSource ==
    /\ pc = "source"
    /\ IF prs = <<>>
       THEN Raise("list index out of range")
       ELSE /\ pc' = "dup"
            /\ UNCHANGED exc
    /\ UNCHANGED <<request, running_numbers, placeholder_text, items_per_slide, called,
                   prs, codes, chunks, dups, sub_i, pre, output_pptx, response>>

\* line 82 without the "- 1"
NeededDuplicates_OnePerChunk == Len(chunks)

\* needed_duplicates (line 82)
NeededDuplicates == Len(chunks) - 1

\* lines 84-85 duplicating the last slide instead of source_slide
DuplicateSlide_FromLast ==
    /\ pc = "dup"
    /\ dups < NeededDuplicates
    /\ \E bgCopied \in BOOLEAN :
          /\ bgCopied => prs[Len(prs)].bg # "none"
          /\ prs' = Append(prs, DuplicateOf(prs[Len(prs)], bgCopied))
    /\ dups' = dups + 1
    /\ UNCHANGED <<request, pc, running_numbers, placeholder_text, items_per_slide,
                   called, codes, chunks, sub_i, pre, output_pptx, exc, response>>

\* lines 84-85, one iteration: duplicate_slide(prs, source_slide) returns
DuplicateSlide ==
    /\ pc = "dup"
    /\ dups < NeededDuplicates
    /\ \E bgCopied \in BOOLEAN :
          /\ bgCopied => prs[1].bg # "none"
          /\ prs' = Append(prs, DuplicateOf(prs[1], bgCopied))
    /\ dups' = dups + 1
    /\ UNCHANGED <<request, pc, running_numbers, placeholder_text, items_per_slide,
                   called, codes, chunks, sub_i, pre, output_pptx, exc, response>>

\* lines 84-85, one iteration: a library call outside the inner handlers raises
DuplicateRaises ==
    /\ pc = "dup"
    /\ dups < NeededDuplicates
    /\ Raise("duplicate_slide failed")
    /\ UNCHANGED <<request, running_numbers, placeholder_text, items_per_slide,
                   called, prs, codes, chunks, dups, sub_i, pre, output_pptx, response>>

\* line 84 exhausted, line 88 reached
StartReplace ==
    /\ pc = "dup"
    /\ dups >= NeededDuplicates
    /\ pre' = prs
    /\ pc' = "subst"
    /\ UNCHANGED <<request, running_numbers, placeholder_text, items_per_slide, called,
                   prs, codes, chunks, dups, sub_i, output_pptx, exc, response>>

\* lines 88-103, one iteration of the outer loop
SubstituteSlide ==
    /\ pc = "subst"
    /\ sub_i < Len(chunks)
    /\ prs' = [prs EXCEPT ![sub_i + 1] =
                  SubstSlide(prs[sub_i + 1], placeholder_text, chunks[sub_i + 1])]
    /\ sub_i' = sub_i + 1
    /\ UNCHANGED <<request, pc, running_numbers, placeholder_text, items_per_slide,
                   called, codes, chunks, dups, pre, output_pptx, exc, response>>

\* lines 88-103, one iteration: a library call raises
SubstituteRaises ==
    /\ pc = "subst"
    /\ sub_i < Len(chunks)
    /\ Raise("substitution failed")
    /\ UNCHANGED <<request, running_numbers, placeholder_text, items_per_slide,
                   called, prs, codes, chunks, dups, sub_i, pre, output_pptx, response>>

\* lines 105-108
Save ==
    /\ pc = "subst"
    /\ sub_i >= Len(chunks)
    /\ \/ /\ output_pptx' = "BytesIO"
          /\ pc' = "respond"
          /\ UNCHANGED exc
       \/ /\ Raise("save failed")
          /\ UNCHANGED output_pptx
    /\ UNCHANGED <<request, running_numbers, placeholder_text, items_per_slide,
                   called, prs, codes, chunks, dups, sub_i, pre, response>>

\* bool(output_pptx): None is false, a BytesIO object is true
Truthy(value) == value = "BytesIO"

\* lines 132-140
Respond ==
    /\ pc = "respond"
    /\ IF Truthy(output_pptx)
       THEN response' = [status |-> 200, body |-> <<>>, attachment |-> prs,
                         download_name |-> <<"F", "i", "l", "l", "e", "d", "_">>
                                             \o request.filename]
       ELSE response' = Reply(400, <<"Error: No running numbers provided.">>)
    /\ pc' = "done"
    /\ UNCHANGED <<request, running_numbers, placeholder_text, items_per_slide,
                   called, prs, codes, chunks, dups, sub_i, pre, output_pptx, exc>>

\* lines 142-144 with "except ValueError": other exceptions leave the handler
HandleException_ValueErrorOnly ==
    /\ pc = "except"
    /\ IF exc \in {"invalid literal for int() with base 10",
                   "range() arg 3 must not be zero"}
       THEN response' = Reply(500, <<"An error occurred: ", exc>>)
       ELSE UNCHANGED response
    /\ pc' = "done"
    /\ UNCHANGED <<request, running_numbers, placeholder_text, items_per_slide,
                   called, prs, codes, chunks, dups, sub_i, pre, output_pptx, exc>>

\* lines 142-144
HandleException ==
    /\ pc = "except"
    /\ response' = Reply(500, <<"An error occurred: ", exc>>)
    /\ pc' = "done"
    /\ UNCHANGED <<request, running_numbers, placeholder_text, items_per_slide,
                   called, prs, codes, chunks, dups, sub_i, pre, output_pptx, exc>>

Next ==
    \/ CheckUploaded
    \/ ReadForm
    \/ CheckSelected
    \/ OpenPresentation
    \/ CleanAndChunk
    \/ TakeSource
    \/ DuplicateSlide
    \/ DuplicateRaises
    \/ StartReplace
    \/ SubstituteSlide
    \/ SubstituteRaises
    \/ Save
    \/ Respond
    \/ HandleException

Spec == Init /\ [][Next]_vars

SpecDoc == InitDoc /\ [][Next]_vars

(***************************************************************************)
(* Vocabulary of the properties.                                           *)
(***************************************************************************)
Done == pc = "done"

\* the submitted code list has no non-blank line
BlankCodeList ==
    LET rn == FormGet(request.running_numbers, <<>>)
    IN  \A k \in 1..Len(rn) : rn[k] \in Whitespace

\* the request carries no usable template file
NoTemplateFile == ~request.has_file \/ request.filename = <<>>

\* number of slides of the uploaded template
TemplateSlides == Len(request.upload.slides)

(***************************************************************************)
(* C1: a request whose code list has no non-blank line is answered with    *)
(* status 400, whatever the other form fields are.                         *)
(***************************************************************************)
C1_BlankCodesGive400 == (Done /\ BlankCodeList) => response.status = 400

(***************************************************************************)
(* C2: a request with no template_file part, or with an empty filename,    *)
(* is answered with status 400 and process_pptx_template is never called,  *)
(* whatever the other form fields are.                                     *)
(***************************************************************************)
C2_NoFileGives400 ==
    NoTemplateFile => /\ ~called
                      /\ Done => response.status = 400

(***************************************************************************)
(* C3: every request ends in exactly one of 200 with an attachment, 400    *)
(* with a text or 500 with a text; an exception raised in the handler      *)
(* (non-integer items_per_slide, items_per_slide 0, unparseable template,  *)
(* template without slide, a failure of duplication, substitution or       *)
(* save) is answered with 500 and its message, and never leaves the        *)
(* handler unanswered.                                                     *)
(***************************************************************************)
ProcessReached ==
    /\ request.has_file
    /\ request.filename # <<>>
    /\ request.items_per_slide.present => IsIntText(request.items_per_slide.value)

C3_ThreeOutcomes ==
    /\ ~Done => response = NoResponse
    /\ pc = "except" => exc # "" /\ ENABLED HandleException
    /\ Done => response.status \in {200, 400, 500}
    /\ Done /\ response.status = 200 =>
          exc = "" /\ response.body = <<>> /\ output_pptx = "BytesIO"
    /\ Done /\ response.status = 400 =>
          exc = "" /\ Len(response.body) = 1 /\ response.attachment = <<>>
    /\ Done /\ response.status = 500 =>
          exc # "" /\ response.body = <<"An error occurred: ", exc>>
                   /\ response.attachment = <<>>
    /\ exc # "" => pc \in {"except", "done"}
    /\ Done /\ exc # "" => response.status = 500
    /\ Done /\ request.has_file /\ request.items_per_slide.present
            /\ ~IsIntText(request.items_per_slide.value) => response.status = 500
    /\ Done /\ ProcessReached /\ ~request.upload.parseable => response.status = 500
    /\ Done /\ ProcessReached /\ request.upload.parseable /\ ~BlankCodeList
            /\ items_per_slide = 0 => response.status = 500
    /\ Done /\ ProcessReached /\ request.upload.parseable /\ ~BlankCodeList
            /\ items_per_slide # 0 /\ TemplateSlides = 0 => response.status = 500

C3_Witness ==
    /\ Done
    /\ response = Reply(500, <<"An error occurred: ", "range() arg 3 must not be zero">>)
    /\ codes # <<>>

(***************************************************************************)
(* C10: a 200 response is produced only when the code list is non-empty    *)
(* and at least one chunk was substituted into slide 0.                    *)
(***************************************************************************)
C10_SuccessMeansSubstituted ==
    (Done /\ response.status = 200) =>
        /\ codes # <<>>
        /\ Len(chunks) >= 1
        /\ sub_i >= 1

(***************************************************************************)
(* C4 as stated: whenever process_pptx_template returns a document, the    *)
(* number of slides after the duplication phase equals the number of       *)
(* chunks, for every template, code list and items_per_slide.              *)
(***************************************************************************)
C4_SlidesEqualChunks == output_pptx = "BytesIO" => Len(pre) = Len(chunks)

(***************************************************************************)
(* C4 as amended: whenever process_pptx_template returns a document, the   *)
(* number of slides after the duplication phase is the number of slides    *)
(* of the template plus max(number of chunks - 1, 0), and substitution     *)
(* does not change it; it equals the number of chunks exactly when the     *)
(* template has one slide and there is at least one chunk.                 *)
(***************************************************************************)
C4_SlideCount ==
    output_pptx = "BytesIO" =>
        /\ Len(pre) = TemplateSlides + Max(Len(chunks) - 1, 0)
        /\ Len(prs) = Len(pre)
        /\ Len(pre) = Len(chunks) <=> (TemplateSlides = 1 /\ Len(chunks) >= 1)

C4_Witness ==
    /\ output_pptx = "BytesIO"
    /\ TemplateSlides = 1
    /\ Len(chunks) = 3
    /\ Len(pre) = 3

(***************************************************************************)
(* Lines of a text and runs of a slide, described by positions.            *)
(***************************************************************************)
RECURSIVE Flatten(_)
Flatten(seqs) == IF seqs = <<>> THEN <<>> ELSE Head(seqs) \o Flatten(Tail(seqs))

\* 0, the positions of the line breaks of rn, and the position after its end
LineBreaks(rn) == {0, Len(rn) + 1} \cup {i \in 1..Len(rn) : rn[i] = "\n"}

NextBreak(rn, b) ==
    CHOOSE c \in LineBreaks(rn) : c > b /\ \A d \in LineBreaks(rn) : d > b => c <= d

\* the breaks that are followed by a line with a non-blank character
NonBlankStarts(rn) ==
    {b \in LineBreaks(rn) \ {Len(rn) + 1} :
        \E k \in (b + 1)..(NextBreak(rn, b) - 1) : rn[k] \notin Whitespace}

\* the line after break b, from its first to its last non-blank character
TrimmedLine(rn, b) ==
    LET ks == {k \in (b + 1)..(NextBreak(rn, b) - 1) : rn[k] \notin Whitespace}
        lo == CHOOSE k \in ks : \A j \in ks : k <= j
        hi == CHOOSE k \in ks : \A j \in ks : k >= j
    IN  SubSeq(rn, lo, hi)

\* <<shape, paragraph, run>> of every run of a text frame of the slide
RunPositions(slide) ==
    UNION {UNION {{<<s, p, r>> : r \in 1..Len(slide.shapes[s].paras[p])} :
                     p \in 1..Len(slide.shapes[s].paras)} :
              s \in {t \in 1..Len(slide.shapes) : HasTextFrame(slide.shapes[t])}}

RunText(slide, pos) == slide.shapes[pos[1]].paras[pos[2]][pos[3]]

\* shape, paragraph, run order
Before(a, b) ==
    \/ a[1] < b[1]
    \/ a[1] = b[1] /\ a[2] < b[2]
    \/ a[1] = b[1] /\ a[2] = b[2] /\ a[3] < b[3]

\* the runs of the slide that contain the placeholder
PlaceholderRuns(slide, ph) ==
    {pos \in RunPositions(slide) : Contains(RunText(slide, pos), ph)}

(***************************************************************************)
(* C5: every code of the cleaned code list has replaced exactly one        *)
(* placeholder occurrence of the returned document; none is dropped.       *)
(***************************************************************************)
C5_EveryCodePlaced ==
    (Done /\ response.status = 200) =>
        /\ Flatten(chunks) = codes
        /\ \A i \in 1..Len(chunks) :
              Cardinality(PlaceholderRuns(pre[i], placeholder_text)) >= Len(chunks[i])

(***************************************************************************)
(* C6: for items_per_slide N >= 1 the chunks are an order-preserving       *)
(* partition of the cleaned code list (the non-blank lines of the text     *)
(* block, trimmed, in input order): their concatenation is the code list,  *)
(* every chunk has at most N codes, every chunk but the last exactly N,    *)
(* none is empty, and there are ceil(len(codes) / N) of them.              *)
(***************************************************************************)
C6_ChunksPartitionCodes ==
    /\ output_pptx = "None" => NonBlankStarts(running_numbers) = {}
    /\ codes # <<>> =>
          LET starts == NonBlankStarts(running_numbers)
          IN  /\ Len(codes) = Cardinality(starts)
              /\ \A b \in starts :
                    codes[Cardinality({c \in starts : c <= b})]
                       = TrimmedLine(running_numbers, b)
    /\ (codes # <<>> /\ items_per_slide >= 1 /\ pc # "clean") =>
          /\ Flatten(chunks) = codes
          /\ \A k \in 1..Len(chunks) :
                /\ Len(chunks[k]) >= 1
                /\ Len(chunks[k]) <= items_per_slide
                /\ k < Len(chunks) => Len(chunks[k]) = items_per_slide
          /\ Len(chunks) * items_per_slide >= Len(codes)
          /\ (Len(chunks) - 1) * items_per_slide < Len(codes)

C6_Witness ==
    /\ pc = "source"
    /\ items_per_slide = 2
    /\ Len(codes) = 3
    /\ codes[1] # codes[2]
    /\ running_numbers # Flatten(codes)
    /\ Len(chunks) = 2

(***************************************************************************)
(* C7: substitution is positional per slide.  On slide i, in shape,        *)
(* paragraph, run order, the k-th run that contains the placeholder has    *)
(* only its first occurrence replaced by the k-th code of chunk i while    *)
(* k < len(chunk i); every later run that contains the placeholder loses   *)
(* all its occurrences; runs without the placeholder and shapes without a  *)
(* text frame are unchanged.                                               *)
(***************************************************************************)
SameLayout(a, b) ==
    /\ a.bg = b.bg
    /\ Len(a.shapes) = Len(b.shapes)
    /\ \A s \in 1..Len(a.shapes) :
          /\ a.shapes[s].kind = b.shapes[s].kind
          /\ a.shapes[s].how = b.shapes[s].how
          /\ a.shapes[s].fail = b.shapes[s].fail
          /\ Len(a.shapes[s].paras) = Len(b.shapes[s].paras)
          /\ \A p \in 1..Len(a.shapes[s].paras) :
                Len(a.shapes[s].paras[p]) = Len(b.shapes[s].paras[p])

\* new is old with its first occurrence of ph replaced by code
FirstReplaced(old, new, ph, code) ==
    LET j == Find(old, ph)
    IN  new = SubSeq(old, 1, j - 1) \o code \o SubSeq(old, j + Len(ph), Len(old))

\* new is old with every occurrence of ph removed
AllRemoved(old, new, ph) ==
    /\ new = Replace(old, ph, <<>>, -1)
    /\ Len(ph) = 1 =>
          /\ ~Contains(new, ph)
          /\ Len(new) = Len(old) - Cardinality(Occurrences(old, ph))

C7_PositionalSubstitution ==
    pre # <<>> =>
        /\ Len(prs) = Len(pre)
        /\ sub_i <= Len(chunks)
        /\ \A i \in 1..Len(prs) :
              IF i > sub_i THEN prs[i] = pre[i]
              ELSE /\ SameLayout(pre[i], prs[i])
                   /\ \A s \in 1..Len(pre[i].shapes) :
                         ~HasTextFrame(pre[i].shapes[s]) =>
                             prs[i].shapes[s] = pre[i].shapes[s]
                   /\ \A pos \in RunPositions(pre[i]) :
                         LET old == RunText(pre[i], pos)
                             new == RunText(prs[i], pos)
                             k   == Cardinality(
                                      {q \in PlaceholderRuns(pre[i], placeholder_text) :
                                          Before(q, pos)})
                         IN  IF ~Contains(old, placeholder_text) THEN new = old
                             ELSE IF k < Len(chunks[i])
                             THEN FirstReplaced(old, new, placeholder_text,
                                                chunks[i][k + 1])
                             ELSE AllRemoved(old, new, placeholder_text)

C7_Witness ==
    /\ pc = "subst"
    /\ sub_i = 1
    /\ placeholder_text = <<"P">>
    /\ chunks[1] = <<<<"a">>>>
    /\ Len(pre[1].shapes) = 2
    /\ pre[1].shapes[1] = ThreeRuns
    /\ pre[1].shapes[2] = Connector
    /\ prs[1].shapes[1].paras = << <<<<"a", "a", "P">>, <<"a">>>>, <<<<"a">>>> >>

(***************************************************************************)
(* C8 as stated: every call of duplicate_slide completes before the first  *)
(* run is substituted, every duplication copies slide 0 in its unmodified  *)
(* state, every duplicate carries the placeholder occurrences of the       *)
(* template slide when substitution starts, and chunk i is substituted     *)
(* into slide i, which is the template slide for i = 0 and a duplicate of  *)
(* it for i >= 1.                                                          *)
(***************************************************************************)
\* the paragraphs of the text frames of a slide, in shape order
TextParas(slide) ==
    LET ts == SelectSeq(slide.shapes, HasTextFrame)
    IN  [s \in 1..Len(ts) |-> ts[s].paras]

\* slide was made by duplicate_slide from source
IsDuplicateOf(slide, source) ==
    /\ TextParas(slide) = TextParas(source)
    /\ \A s \in 1..Len(slide.shapes) : slide.shapes[s].how \in {"xml", "image"}

\* duplication happens before any substitution, from the unmodified slide 0
DuplicationFirst ==
    /\ pc = "dup" =>
          /\ sub_i = 0
          /\ pre = <<>>
          /\ Len(prs) = TemplateSlides + dups
          /\ SubSeq(prs, 1, TemplateSlides) = request.upload.slides
    /\ pre # <<>> =>
          /\ dups = Max(Len(chunks) - 1, 0)
          /\ Len(pre) = TemplateSlides + dups
          /\ SubSeq(pre, 1, TemplateSlides) = request.upload.slides
          /\ \A j \in (TemplateSlides + 1)..Len(pre) :
                IsDuplicateOf(pre[j], request.upload.slides[1])

\* chunk i has gone into slide i and nowhere else
ChunkIntoSlide ==
    pre # <<>> =>
        \A i \in 1..Len(prs) :
            IF i <= sub_i
            THEN prs[i] = SubstSlide(pre[i], placeholder_text, chunks[i])
            ELSE prs[i] = pre[i]

C8_SlideIsDuplicate ==
    /\ DuplicationFirst
    /\ ChunkIntoSlide
    /\ pre # <<>> =>
          \A i \in 2..Len(chunks) :
              /\ i > TemplateSlides
              /\ IsDuplicateOf(pre[i], request.upload.slides[1])

(***************************************************************************)
(* C8 as amended: the same, except that chunk i is substituted into the    *)
(* i-th slide of the presentation as it stands after duplication, which    *)
(* is the template's own slide i while i is less than the number of        *)
(* slides of the template and a duplicate of slide 0 from there on; for a  *)
(* one-slide template that is the template slide for i = 0 and a           *)
(* duplicate of it for i >= 1.                                             *)
(***************************************************************************)
C8_PhasesInSequence ==
    /\ DuplicationFirst
    /\ ChunkIntoSlide
    /\ pre # <<>> =>
          \A i \in 1..Len(chunks) :
              IF i <= TemplateSlides
              THEN pre[i] = request.upload.slides[i]
              ELSE IsDuplicateOf(pre[i], request.upload.slides[1])
    /\ (pre # <<>> /\ TemplateSlides = 1) =>
          \A i \in 2..Len(chunks) : IsDuplicateOf(pre[i], request.upload.slides[1])

C8_Witness ==
    /\ pc = "subst"
    /\ TemplateSlides = 2
    /\ Len(chunks) = 3
    /\ sub_i = 3
    /\ Len(prs) = 4
    /\ prs[2] # pre[2]
    /\ prs[3] # pre[3]

(***************************************************************************)
(* C9: duplicate_slide appends exactly one slide, leaves the existing      *)
(* slides unchanged, and gives the new slide exactly one shape per source  *)
(* shape in source order: a re-inserted picture for a picture, a raw       *)
(* element copy instead when a step of the re-insertion raises (never      *)
(* both), a raw element copy for every other shape.                        *)
(***************************************************************************)
C9_OneShapePerSourceShape ==
    pc = "dup" =>
        /\ Len(prs) = TemplateSlides + dups
        /\ SubSeq(prs, 1, TemplateSlides) = request.upload.slides
        /\ \A j \in (TemplateSlides + 1)..Len(prs) :
              LET src == request.upload.slides[1].shapes
                  new == prs[j].shapes
              IN  /\ Len(new) = Len(src)
                  /\ \A k \in 1..Len(src) :
                        IF IsPicture(src[k]) /\ src[k].fail = "none"
                        THEN new[k] = Reinserted(src[k])
                        ELSE new[k] = XmlCopy(src[k])

====
